---- MODULE Spec2Model ----
(***************************************************************************)
(* BreathBubbles (assets/js/breathbubbles.js): the canvas particle field.  *)
(*                                                                         *)
(* Numbers.  The program computes in IEEE doubles; the model computes in   *)
(* fixed point.  Lengths and velocities are in 1/PX of a device pixel,     *)
(* fractions (Math.random(), sines, the breath signal) in 1/ONE, time in   *)
(* whole milliseconds.  Products are divided with floor (\div).            *)
(***************************************************************************)
EXTENDS Integers, Sequences, FiniteSets, TLC

PX == 100
ONE == 1000

\* ------------------------------------------------------------- bounds
\* largest bubbleCount tried
MaxBubbles == 2
\* how many times the clock is advanced
MaxTicks == 1
\* the breathing exercise: Date.now() runs from 0 to MaxSeconds seconds
MaxSeconds == 10
\* the breathing exercise: start is not clicked with MaxChains callbacks of a kind pending
MaxChains == 2

\* ------------------------------------------------------ the environment
\* window.devicePixelRatio: a high-density display
DevicePixelRatios == {2}
\* canvas.getBoundingClientRect(): left, top (CSS px) and the sizes it can have
RectLeft == 10
RectTop == 20
RectSizes == {<<50, 50>>, <<150, 100>>}
\* (clientX, clientY) of the pointermove events delivered
ClientPoints == {<<10, 20>>, <<85, 15>>}
\* milliseconds by which performance.now() can be seen to advance
ClockSteps == {4800}
\* outcomes of Math.random(), in 1/ONE
RandVals == {0, 500}
\* the seven Math.random() outcomes of one makeBubble call, in its call order
BubbleDraws ==
    { [r |-> 0,   x |-> 0,   y |-> 0,   hue |-> 0,   vy |-> 0,   vx |-> 0,   seed |-> 0],
      [r |-> 500, x |-> 500, y |-> 500, hue |-> 500, vy |-> 500, vx |-> 990, seed |-> 500] }

\* ------------------------------------------------------------ numbers
Abs(n) == IF n < 0 THEN -n ELSE n

RECURSIVE SqrtBetween(_, _, _)
\* the largest r in lo..hi with r*r <= n  (lo*lo <= n)
SqrtBetween(n, lo, hi) ==
    IF lo >= hi THEN lo
    ELSE LET m == (lo + hi + 1) \div 2
         IN  IF m * m <= n THEN SqrtBetween(n, m, hi) ELSE SqrtBetween(n, lo, m - 1)

Sqrt(n) == SqrtBetween(n, 0, 46340)

\* Math.hypot(dx, dy), to 2/PX of a pixel: the arguments are halved first so that
\* the squares stay inside the integers TLC has (|dx|, |dy| < 65536)
Hypot(dx, dy) ==
    LET a == Abs(dx) \div 2
        b == Abs(dy) \div 2
    IN  2 * Sqrt(a * a + b * b)

\* ONE * sin(pi * p / ONE) for p in 0..ONE: Bhaskara's rational approximation
\* 16 p (1 - p) / (5 - 4 p (1 - p)); exact at 0, 1/6, 1/2, 5/6 and 1
SinHalf(p) ==
    LET q == 4 * p * (ONE - p)
    IN  (4 * q) \div ((5 * ONE * ONE - q) \div ONE)

\* ONE * Math.sin(pi * n / d), n >= 0, d > 0
Sin(n, d) ==
    LET p == ((n * ONE) \div d) % (2 * ONE)
    IN  IF p <= ONE THEN SinHalf(p) ELSE -SinHalf(p - ONE)

\* ------------------------------------------------------------ options
Defaults ==
    [ bubbleCount |-> 42,
      baseHue |-> 190 * PX,
      hueRange |-> 40 * PX,
      minRadius |-> 14 * PX,
      maxRadius |-> 64 * PX,
      floatSpeed |-> <<12, 55>>,
      wobbleStrength |-> 55,
      breathingPeriod |-> 6400,
      connectionDistance |-> 148 * PX,
      interactiveForce |-> 12,
      parallax |-> 6 ]

\* the options objects passed to the constructor, merged over the defaults
OptionSets ==
    { [Defaults EXCEPT !.bubbleCount = n] : n \in (-1) .. MaxBubbles }
    \cup { [Defaults EXCEPT !.bubbleCount = 1, !.minRadius = 10 * PX, !.maxRadius = 10 * PX] }
    \cup { [Defaults EXCEPT !.bubbleCount = 1, !.floatSpeed = <<30 * PX, 30 * PX>>,
                             !.breathingPeriod = 19200] }

VARIABLES
    options,          \* this.options
    dpr,              \* this.dpr
    canvas,           \* canvas.width, canvas.height (device pixels)
    bubbles,          \* this.bubbles
    t0,               \* this.t0
    mouse,            \* this.mouse
    now,              \* performance.now()
    visibilityState,  \* document.visibilityState
    frameAt,          \* history: the clock reading of the last frame, -1 before the first
    elapsed,          \* history: t of the last frame, -1 before the first
    steps,            \* history: per bubble, what the last frame's steps did to it
    lastPointer,      \* history: the last pointer event delivered
    samples,          \* history: pointer events delivered since the last frame (at most 2 counted)
    delivered,        \* history: the pointer events delivered between the last two frames
    resumedAt,        \* history: the clock reading when the page last became visible
    ticks,            \* history: how many times the clock was advanced
    \* BreathingExercise and LanguageManager
    currentLang,      \* LanguageManager.currentLang
    isActive,         \* this.isActive
    startTime,        \* this.startTime
    phases,           \* this.phases
    currentPhase,     \* this.currentPhase
    phaseStartTime,   \* this.phaseStartTime
    text,             \* this.text.textContent
    scale,            \* the scale of this.bubble.style.transform, in 1/ONE
    timer,            \* this.timer.textContent: <<minutes, seconds>>, shown as mm:ss
    btn,              \* this.btn.textContent
    date,             \* Date.now()
    animates,         \* animate callbacks requestAnimationFrame holds
    timeouts,         \* due times of the updateTimer callbacks setTimeout holds
    handler           \* history: the exercise handler that ran last

fieldVars == <<options, dpr, canvas, bubbles, t0, mouse, now, visibilityState,
               frameAt, elapsed, steps, lastPointer, samples, delivered, resumedAt, ticks>>

exerciseVars == <<currentLang, isActive, startTime, phases, currentPhase, phaseStartTime,
                  text, scale, timer, btn, date, animates, timeouts, handler>>

vars == <<options, dpr, canvas, bubbles, t0, mouse, now, visibilityState,
          frameAt, elapsed, steps, lastPointer, samples, delivered, resumedAt, ticks,
          currentLang, isActive, startTime, phases, currentPhase, phaseStartTime,
          text, scale, timer, btn, date, animates, timeouts, handler>>

\* ------------------------------------------------------------- helpers
\* rand(min, max) with Math.random() = u / ONE
rand(u, min, max) == (u * (max - min)) \div ONE + min

\* makeBubble() on a canvas of w x h device pixels, with the draws d
makeBubble(opt, w, h, d) ==
    LET r == rand(d.r, opt.minRadius, opt.maxRadius)
    IN  [ x |-> (d.x * w * PX) \div ONE,
          y |-> (d.y * h * PX) \div ONE,
          r |-> r,
          baseR |-> r,
          hue |-> opt.baseHue + rand(d.hue, -(opt.hueRange \div 2), opt.hueRange \div 2),
          vy |-> -rand(d.vy, opt.floatSpeed[1], opt.floatSpeed[2]),
          vx |-> rand(d.vx, -15, 15),
          wobbleSeed |-> (d.seed * 1000) \div ONE ]

\* init() with the loop bound off by one (i <= bubbleCount)
InitCountInclusive(opt) == IF opt.bubbleCount >= 0 THEN opt.bubbleCount + 1 ELSE 0

\* how many times the loop of init() runs
InitCount(opt) == IF opt.bubbleCount > 0 THEN opt.bubbleCount ELSE 0

\* resize(): the canvas takes the rectangle's size times dpr
Resized(rect, ratio) == [width |-> rect[1] * ratio, height |-> rect[2] * ratio]

\* ---------------------------------------------------------------- frame
\* breath without the halving: 0..2
BreathUnhalved(t, opt) == Sin(2 * t, opt.breathingPeriod) + ONE

\* breath without the offset: only the sine, halved
BreathUnshifted(t, opt) == (Sin(2 * t, opt.breathingPeriod) + ONE) \div 2 - ONE \div 2

\* breath, in 1/ONE
Breath(t, opt) == (Sin(2 * t, opt.breathingPeriod) + ONE) \div 2

\* scale, in 1/(100 * ONE)
Scale(breath) == 82 * ONE + breath * 36

Breathe(b, breath) == [b EXCEPT !.r = (b.baseR * Scale(breath)) \div (100 * ONE)]

Move(b, t, breath, opt) ==
    [b EXCEPT !.y = b.y + (b.vy * (600 + (breath * 800) \div ONE)) \div 1000,
              !.x = b.x + b.vx
                    + (Sin((t + b.wobbleSeed) * 18, 31416) * opt.wobbleStrength) \div ONE]

LeavesTop(b) == b.y + b.r < 0

\* a recycle that makes the bubble anew: the wobble seed is drawn again
RecycleReseeding(b, cv, u) ==
    IF LeavesTop(b)
    THEN [b EXCEPT !.y = cv.height * PX + b.r * 2, !.x = (u * cv.width * PX) \div ONE,
                   !.wobbleSeed = b.wobbleSeed + 1 + (u * 1000) \div ONE]
    ELSE b

Recycle(b, cv, u) ==
    IF LeavesTop(b)
    THEN [b EXCEPT !.y = cv.height * PX + b.r * 2, !.x = (u * cv.width * PX) \div ONE]
    ELSE b

WrapSide(b, cv) ==
    IF b.x - b.r > cv.width * PX THEN "right"
    ELSE IF b.x + b.r < 0 THEN "left"
    ELSE "none"

\* a wrap that clamps to the edge instead of re-entering behind it
WrapClamped(b, cv) ==
    IF b.x - b.r > cv.width * PX THEN [b EXCEPT !.x = 0]
    ELSE IF b.x + b.r < 0 THEN [b EXCEPT !.x = cv.width * PX]
    ELSE b

Wrap(b, cv) ==
    IF b.x - b.r > cv.width * PX THEN [b EXCEPT !.x = -b.r]
    ELSE IF b.x + b.r < 0 THEN [b EXCEPT !.x = cv.width * PX + b.r]
    ELSE b

\* 180 * this.dpr, in 1/PX
Reach(ratio) == 180 * ratio * PX

Dist(b, m) == Hypot(b.x - m.x, b.y - m.y)

InReach(b, m, ratio) == m.active /\ Dist(b, m) < Reach(ratio)

\* a force that grows with the distance
ForceGrowing(dist, ratio, opt) ==
    (dist * opt.interactiveForce * 100) \div Reach(ratio)

\* force, in 1/(100 * 100)
Force(dist, ratio, opt) ==
    ((Reach(ratio) - dist) * opt.interactiveForce * 100) \div Reach(ratio)

\* an interaction that pulls: the offset is subtracted
InteractPulling(b, m, ratio, opt) ==
    IF InReach(b, m, ratio)
    THEN LET force == Force(Dist(b, m), ratio, opt)
         IN  [b EXCEPT !.x = b.x - ((b.x - m.x) * force) \div (100 * 100),
                       !.y = b.y - ((b.y - m.y) * force) \div (100 * 100)]
    ELSE b

Interact(b, m, ratio, opt) ==
    IF InReach(b, m, ratio)
    THEN LET force == Force(Dist(b, m), ratio, opt)
         IN  [b EXCEPT !.x = b.x + ((b.x - m.x) * force) \div (100 * 100),
                       !.y = b.y + ((b.y - m.y) * force) \div (100 * 100)]
    ELSE b

\* the update of one bubble up to and including the wrap checks (lines 87-101)
Drift(b, t, breath, cv, opt, u) == Wrap(Recycle(Move(Breathe(b, breath), t, breath, opt), cv, u), cv)

\* what the steps did to one bubble: b before the frame, u its recycle draw
StepsOf(b, t, breath, cv, m, ratio, opt, u) ==
    LET moved == Move(Breathe(b, breath), t, breath, opt)
        placed == Recycle(moved, cv, u)
        wrapped == Wrap(placed, cv)
    IN  [ recycled |-> LeavesTop(moved),
          wrap |-> WrapSide(placed, cv),
          pushed |-> InReach(wrapped, m, ratio),
          x |-> wrapped.x,
          y |-> wrapped.y ]

NoPointer == [kind |-> "none", clientX |-> 0, clientY |-> 0]

\* the field after its constructor
FieldInit ==
    /\ options \in OptionSets
    /\ dpr \in DevicePixelRatios
    /\ \E rect \in RectSizes :
         /\ canvas = Resized(rect, dpr)
         /\ \E ds \in [1 .. InitCount(options) -> BubbleDraws] :
              bubbles = [i \in 1 .. InitCount(options) |->
                           makeBubble(options, canvas.width, canvas.height, ds[i])]
    /\ t0 = 0
    /\ now = 0
    /\ mouse = [x |-> 0, y |-> 0, active |-> FALSE]
    /\ visibilityState = "visible"
    /\ frameAt = -1
    /\ elapsed = -1
    /\ steps = <<>>
    /\ lastPointer = NoPointer
    /\ samples = 0
    /\ delivered = 0
    /\ resumedAt = 0
    /\ ticks = 0

\* the clock moves on
ClockAdvance(d) ==
    /\ ticks < MaxTicks
    /\ ticks' = ticks + 1
    /\ now' = now + d
    /\ UNCHANGED <<options, dpr, canvas, bubbles, t0, mouse, visibilityState,
                   frameAt, elapsed, steps, lastPointer, samples, delivered, resumedAt>>
    /\ UNCHANGED exerciseVars

\* a pointermove listener that keeps the first sample while the pointer is active
PointerMoveFirstWins(clientX, clientY) ==
    /\ mouse' = IF mouse.active THEN mouse
                ELSE [x |-> (clientX - RectLeft) * dpr * PX,
                      y |-> (clientY - RectTop) * dpr * PX,
                      active |-> TRUE]
    /\ lastPointer' = [kind |-> "move", clientX |-> clientX, clientY |-> clientY]
    /\ samples' = IF samples < 2 THEN samples + 1 ELSE samples
    /\ UNCHANGED <<options, dpr, canvas, bubbles, t0, now, visibilityState,
                   frameAt, elapsed, steps, delivered, resumedAt, ticks>>
    /\ UNCHANGED exerciseVars

\* the pointermove listener
PointerMove(clientX, clientY) ==
    /\ mouse' = [x |-> (clientX - RectLeft) * dpr * PX,
                 y |-> (clientY - RectTop) * dpr * PX,
                 active |-> TRUE]
    /\ lastPointer' = [kind |-> "move", clientX |-> clientX, clientY |-> clientY]
    /\ samples' = IF samples < 2 THEN samples + 1 ELSE samples
    /\ UNCHANGED <<options, dpr, canvas, bubbles, t0, now, visibilityState,
                   frameAt, elapsed, steps, delivered, resumedAt, ticks>>
    /\ UNCHANGED exerciseVars

\* the pointerleave listener
PointerLeave ==
    /\ mouse' = [mouse EXCEPT !.active = FALSE]
    /\ lastPointer' = [kind |-> "leave", clientX |-> 0, clientY |-> 0]
    /\ samples' = IF samples < 2 THEN samples + 1 ELSE samples
    /\ UNCHANGED <<options, dpr, canvas, bubbles, t0, now, visibilityState,
                   frameAt, elapsed, steps, delivered, resumedAt, ticks>>
    /\ UNCHANGED exerciseVars

\* a resize that also clamps the bubbles into the new bounds
ResizeClamping(rect) ==
    /\ canvas' = Resized(rect, dpr)
    /\ bubbles' = [i \in 1 .. Len(bubbles) |->
                     [bubbles[i] EXCEPT !.x = IF @ > rect[1] * dpr * PX THEN rect[1] * dpr * PX ELSE @,
                                        !.y = IF @ > rect[2] * dpr * PX THEN rect[2] * dpr * PX ELSE @]]
    /\ UNCHANGED <<options, dpr, t0, mouse, now, visibilityState,
                   frameAt, elapsed, steps, lastPointer, samples, delivered, resumedAt, ticks>>
    /\ UNCHANGED exerciseVars

\* resize(), from the ResizeObserver or the window's resize listener
Resize(rect) ==
    /\ canvas' = Resized(rect, dpr)
    /\ UNCHANGED <<options, dpr, bubbles, t0, mouse, now, visibilityState,
                   frameAt, elapsed, steps, lastPointer, samples, delivered, resumedAt, ticks>>
    /\ UNCHANGED exerciseVars

\* a visibilitychange listener that leaves the origin alone
VisibilityChangeKeepsOrigin(state) ==
    /\ state # visibilityState
    /\ visibilityState' = state
    /\ resumedAt' = IF state = "visible" THEN now ELSE resumedAt
    /\ UNCHANGED <<options, dpr, canvas, bubbles, t0, mouse, now,
                   frameAt, elapsed, steps, lastPointer, samples, delivered, ticks>>
    /\ UNCHANGED exerciseVars

\* the visibilitychange listener; the page has just become `state`
VisibilityChange(state) ==
    /\ state # visibilityState
    /\ visibilityState' = state
    /\ t0' = IF state = "visible" THEN now ELSE t0
    /\ resumedAt' = IF state = "visible" THEN now ELSE resumedAt
    /\ UNCHANGED <<options, dpr, canvas, bubbles, mouse, now,
                   frameAt, elapsed, steps, lastPointer, samples, delivered, ticks>>
    /\ UNCHANGED exerciseVars

\* the Math.random() outcomes a frame can draw: line 98 draws for the bubbles
\* that leave the top, and for no other
RecycleDraws(t, breath) ==
    { us \in [1 .. Len(bubbles) -> RandVals] :
        \A i \in 1 .. Len(bubbles) :
          LeavesTop(Move(Breathe(bubbles[i], breath), t, breath, options)) \/ us[i] = 0 }

\* frame(): one animation frame; frames are delivered while the page is visible,
\* one per display refresh
Frame ==
    /\ visibilityState = "visible"
    /\ now > frameAt
    /\ LET t == now - t0
           breath == Breath(t, options)
           n == Len(bubbles)
       IN  \E us \in RecycleDraws(t, breath) :
             /\ bubbles' = [i \in 1 .. n |->
                              Interact(Drift(bubbles[i], t, breath, canvas, options, us[i]),
                                       mouse, dpr, options)]
             /\ steps' = [i \in 1 .. n |->
                            StepsOf(bubbles[i], t, breath, canvas, mouse, dpr, options, us[i])]
             /\ elapsed' = t
    /\ frameAt' = now
    /\ samples' = 0
    /\ delivered' = samples
    /\ UNCHANGED <<options, dpr, canvas, t0, mouse, now, visibilityState,
                   lastPointer, resumedAt, ticks>>
    /\ UNCHANGED exerciseVars

\* ------------------------------------------- the breathing exercise
\* LanguageManager.supportedLangs
SupportedLangs == {"zh", "en"}

\* LanguageManager.breathingTexts (the Chinese labels in pinyin)
BreathingTexts ==
    [ zh |-> <<"xiqi", "bingxi", "huqi", "zanting">>,
      en |-> <<"Inhale", "Hold", "Exhale", "Pause">> ]

\* this.phaseDurations, ms
PhaseDurations == <<4000, 1000, 4000, 1000>>

\* the button's labels
StopTexts == [zh |-> "tingzhi lianxi", en |-> "Stop Practice"]

StartTexts == [zh |-> "kaishi lianxi", en |-> "Start Practice"]

\* milliseconds by which Date.now() can be seen to advance
DateSteps == {1000}

\* the delay updateTimer() gives setTimeout
TimerDelay == 1000

\* an animate() that moves on after the last phase's duration, not the current one's
AnimateStale(phase, pst, dnow, labels) ==
    LET advance == dnow - pst >= PhaseDurations[((phase + 3) % 4) + 1]
        p == IF advance THEN (phase + 1) % Len(labels) ELSE phase
        st == IF advance THEN dnow ELSE pst
    IN  [currentPhase |-> p, phaseStartTime |-> st, text |-> labels[p + 1], scale |-> ONE]

\* the body of animate() while active, at Date.now() = dnow: the phase, its start,
\* the label and the bubble's scale it leaves
Animate(phase, pst, dnow, labels) ==
    LET advance == dnow - pst >= PhaseDurations[phase + 1]
        p == IF advance THEN (phase + 1) % Len(labels) ELSE phase
        st == IF advance THEN dnow ELSE pst
        progress == ((dnow - st) * ONE) \div PhaseDurations[p + 1]
        sc == CASE p = 0 -> ONE + (progress * 5) \div 10
                [] p = 1 -> (15 * ONE) \div 10
                [] p = 2 -> (15 * ONE) \div 10 - (progress * 5) \div 10
                [] OTHER -> ONE
    IN  [currentPhase |-> p, phaseStartTime |-> st, text |-> labels[p + 1], scale |-> sc]

RECURSIVE AnimateTimes(_, _, _, _, _)
\* k animate callbacks run one after the other in the same animation frame
AnimateTimes(k, phase, pst, dnow, labels) ==
    IF k <= 1 THEN Animate(phase, pst, dnow, labels)
    ELSE LET a == Animate(phase, pst, dnow, labels)
         IN  AnimateTimes(k - 1, a.currentPhase, a.phaseStartTime, dnow, labels)

\* the timer text updateTimer() writes, minutes and seconds
TimerText(from, dnow) ==
    <<(dnow - from) \div 60000, ((dnow - from) % 60000) \div 1000>>

\* the page after DOMContentLoaded: the language detected, the exercise idle
ExerciseInit ==
    /\ currentLang \in SupportedLangs
    /\ isActive = FALSE
    /\ startTime = 0
    /\ phases = BreathingTexts[currentLang]
    /\ currentPhase = 0
    /\ phaseStartTime = 0
    /\ text = BreathingTexts[currentLang][1]
    /\ scale = ONE
    /\ timer = <<0, 0>>
    /\ btn = StartTexts[currentLang]
    /\ date = 0
    /\ animates = 0
    /\ timeouts = <<>>
    /\ handler = "none"

\* Date.now() moves on
DateAdvance(d) ==
    /\ date + d <= MaxSeconds * 1000
    /\ date' = date + d
    /\ handler' = "clock"
    /\ UNCHANGED <<currentLang, isActive, startTime, phases, currentPhase, phaseStartTime,
                   text, scale, timer, btn, animates, timeouts>>
    /\ UNCHANGED fieldVars

\* start(), with its calls of animate() and updateTimer()
Start ==
    /\ animates < MaxChains
    /\ Len(timeouts) < MaxChains
    /\ LET a == Animate(0, date, date, phases)
       IN  /\ isActive' = TRUE
           /\ startTime' = date
           /\ currentPhase' = a.currentPhase
           /\ phaseStartTime' = a.phaseStartTime
           /\ text' = a.text
           /\ scale' = a.scale
    /\ btn' = StopTexts[currentLang]
    /\ animates' = animates + 1
    /\ timer' = TimerText(date, date)
    /\ timeouts' = Append(timeouts, date + TimerDelay)
    /\ handler' = "start"
    /\ UNCHANGED <<currentLang, phases, date>>
    /\ UNCHANGED fieldVars

\* stop()
Stop ==
    /\ isActive' = FALSE
    /\ btn' = StartTexts[currentLang]
    /\ scale' = ONE
    /\ text' = phases[1]
    /\ handler' = "stop"
    /\ UNCHANGED <<currentLang, startTime, phases, currentPhase, phaseStartTime,
                   timer, date, animates, timeouts>>
    /\ UNCHANGED fieldVars

\* toggle(): a click on the button
Toggle == IF isActive THEN Stop ELSE Start

\* an animation frame: every animate callback requested before it runs; each one
\* that finds the exercise active requests the next
AnimationFrame ==
    /\ animates > 0
    /\ IF isActive
       THEN LET a == AnimateTimes(animates, currentPhase, phaseStartTime, date, phases)
            IN  /\ currentPhase' = a.currentPhase
                /\ phaseStartTime' = a.phaseStartTime
                /\ text' = a.text
                /\ scale' = a.scale
                /\ animates' = animates
       ELSE /\ animates' = 0
            /\ UNCHANGED <<currentPhase, phaseStartTime, text, scale>>
    /\ handler' = "animate"
    /\ UNCHANGED <<currentLang, isActive, startTime, phases, timer, btn, date, timeouts>>
    /\ UNCHANGED fieldVars

\* the oldest updateTimer callback, once it is due
TimerFires ==
    /\ timeouts # <<>>
    /\ Head(timeouts) <= date
    /\ IF isActive
       THEN /\ timer' = TimerText(startTime, date)
            /\ timeouts' = Append(Tail(timeouts), date + TimerDelay)
       ELSE /\ timeouts' = Tail(timeouts)
            /\ UNCHANGED timer
    /\ handler' = "updateTimer"
    /\ UNCHANGED <<currentLang, isActive, startTime, phases, currentPhase, phaseStartTime,
                   text, scale, btn, date, animates>>
    /\ UNCHANGED fieldVars

\* switchLanguage(lang), from a click on a language button
SwitchLanguage(lang) ==
    /\ lang \in SupportedLangs
    /\ lang # currentLang
    /\ currentLang' = lang
    /\ phases' = BreathingTexts[lang]
    /\ handler' = "switchLanguage"
    /\ UNCHANGED <<isActive, startTime, currentPhase, phaseStartTime,
                   text, scale, timer, btn, date, animates, timeouts>>
    /\ UNCHANGED fieldVars

\* -------------------------------------------------------- specifications
\* the particle field in every constructed state, the exercise left idle
Init ==
    /\ FieldInit
    /\ ExerciseInit
    /\ currentLang = "zh"

Next ==
    \/ \E d \in ClockSteps : ClockAdvance(d)
    \/ \E p \in ClientPoints : PointerMove(p[1], p[2])
    \/ PointerLeave
    \/ \E rect \in RectSizes : Resize(rect)
    \/ \E state \in {"visible", "hidden"} : VisibilityChange(state)
    \/ Frame

Spec == Init /\ [][Next]_vars

\* the exercise in every start state, beside an empty field
ExerciseStart ==
    /\ FieldInit
    /\ options.bubbleCount = 0
    /\ canvas.width = 100
    /\ ExerciseInit

ExerciseNext ==
    \/ \E d \in DateSteps : DateAdvance(d)
    \/ Toggle
    \/ AnimationFrame
    \/ TimerFires
    \/ \E lang \in SupportedLangs : SwitchLanguage(lang)

SpecExercise == ExerciseStart /\ [][ExerciseNext]_vars

\* --------------------------------------------------------------- claims
\* a frame has run
Ticked == elapsed >= 0

\* C1: the field holds exactly bubbleCount particles, none when bubbleCount <= 0,
\* in every state: after construction and after any ticks, resizes, pointer
\* events and visibility changes
ParticleCountFixed ==
    Len(bubbles) = IF options.bubbleCount <= 0 THEN 0 ELSE options.bubbleCount

\* C1 witness: two particles still, after a tick that displaced one of them
ParticleCountWitness ==
    /\ Ticked
    /\ options.bubbleCount = 2
    /\ Len(bubbles) = 2
    /\ \E i \in 1 .. Len(steps) : steps[i].pushed

\* C2: after every tick each particle's current radius lies between 0.82 and
\* 1.18 times its base radius
BreathingBound ==
    Ticked =>
      \A i \in 1 .. Len(bubbles) :
        /\ 100 * bubbles[i].r >= 82 * bubbles[i].baseR
        /\ 100 * bubbles[i].r <= 118 * bubbles[i].baseR

\* C2 witness: a tick with an active pointer in reach left a particle at the
\* lower end of the interval
BreathingBoundWitness ==
    /\ Ticked
    /\ \E i \in 1 .. Len(bubbles) :
         /\ steps[i].pushed
         /\ 100 * bubbles[i].r = 82 * bubbles[i].baseR

\* the field of the scenario: one particle of base radius 10, ticked at elapsed
\* time 0, no pointer event ever delivered
ScenarioAtZero ==
    /\ options.bubbleCount = 1
    /\ options.minRadius = 10 * PX
    /\ options.maxRadius = 10 * PX
    /\ elapsed = 0
    /\ lastPointer.kind = "none"

\* C3 as stated: the tick at elapsed time 0 sets the radius to 10 * 0.82 = 8.2
RadiusAtZeroIsLowest ==
    ScenarioAtZero => bubbles[1].r = (82 * 10 * PX) \div 100

\* C3 amended: the tick at elapsed time 0 sets the radius to 10 * 1.0 = 10; the
\* breath is 1/2 at elapsed time 0
RadiusAtZeroIsBase ==
    ScenarioAtZero => bubbles[1].r = 10 * PX /\ bubbles[1].r = bubbles[1].baseR

\* C3 witness: the scenario's tick has happened on a 100 x 100 surface
RadiusAtZeroWitness ==
    /\ ScenarioAtZero
    /\ canvas = [width |-> 100, height |-> 100]
    /\ bubbles[1].r = 10 * PX

\* a step that is a frame
FrameStep == frameAt' # frameAt

\* in a frame step: bubble i's distance to the pointer before and after the
\* interaction step (lines 104-113)
Before(i) == Dist(steps'[i], mouse)

After(i) == Dist(bubbles'[i], mouse)

\* the bubbles the frame step's interaction displaced
Displaced == { i \in 1 .. Len(bubbles) : steps'[i].pushed }

\* no pointermove came after the last frame: mouse.x, mouse.y are what it read
PointerAsRead == Ticked /\ samples = 0

\* C4 as stated: a particle in reach of the active pointer ends the interaction
\* step no farther from the pointer than it started
PointerPullsCloser ==
    [][FrameStep => \A i \in Displaced : After(i) <= Before(i)]_vars

\* C4 amended: a particle in reach of the active pointer is displaced away from
\* the pointer: it ends the interaction step no closer than it started, moved
\* along its own offset from the pointer
PointerPushesAway ==
    [][FrameStep =>
         \A i \in Displaced :
           /\ After(i) >= Before(i)
           /\ (bubbles'[i].x - steps'[i].x) * (steps'[i].x - mouse.x) >= 0
           /\ (bubbles'[i].y - steps'[i].y) * (steps'[i].y - mouse.y) >= 0]_vars

\* C4 witness: a displaced particle ended strictly farther from the pointer
PointerPushesAwayWitness ==
    /\ PointerAsRead
    /\ \E i \in 1 .. Len(bubbles) :
         /\ steps[i].pushed
         /\ Dist(bubbles[i], mouse) > Dist(steps[i], mouse)

\* C5 as stated: of two displaced particles the closer one's displacement toward
\* the pointer (the decrease of its distance) is at least the farther one's
CloserPulledMore ==
    [][FrameStep =>
         \A i, j \in Displaced :
           Before(i) < Before(j) => Before(i) - After(i) >= Before(j) - After(j)]_vars

\* C5 amended: of two displaced particles the closer one's force factor
\* (1 - dist / (180 dpr)) * interactiveForce is at least the farther one's, and
\* each is displaced by its offset from the pointer times its own factor
CloserForcedHarder ==
    [][FrameStep =>
         \A i, j \in Displaced :
           /\ Before(i) < Before(j) =>
                Force(Before(i), dpr, options) >= Force(Before(j), dpr, options)
           /\ bubbles'[i].x - steps'[i].x
                = ((steps'[i].x - mouse.x) * Force(Before(i), dpr, options)) \div (100 * 100)
           /\ bubbles'[i].y - steps'[i].y
                = ((steps'[i].y - mouse.y) * Force(Before(i), dpr, options)) \div (100 * 100)]_vars

\* C5 witness: two displaced particles at different distances, the closer one
\* with the strictly larger factor
CloserForcedHarderWitness ==
    /\ PointerAsRead
    /\ \E i, j \in 1 .. Len(bubbles) :
         /\ steps[i].pushed
         /\ steps[j].pushed
         /\ Dist(steps[i], mouse) < Dist(steps[j], mouse)
         /\ Force(Dist(steps[i], mouse), dpr, options) > Force(Dist(steps[j], mouse), dpr, options)

\* C6 as stated: a particle that wraps on a tick has x = -r (right exit) or
\* x = width + r (left exit) at the end of that tick
WrapExactAtEndOfTick ==
    [][FrameStep =>
         \A i \in 1 .. Len(bubbles) :
           /\ steps'[i].wrap = "right" => bubbles'[i].x = -bubbles'[i].r
           /\ steps'[i].wrap = "left" => bubbles'[i].x = canvas.width * PX + bubbles'[i].r]_vars

\* C6 amended: a particle that wraps on a tick has x = -r (right exit) or
\* x = width + r (left exit) right after the wrap step, and still at the end of
\* the tick unless the pointer interaction then displaces it
WrapExactBeforePointer ==
    [][FrameStep =>
         \A i \in 1 .. Len(bubbles) :
           /\ steps'[i].wrap = "right" => steps'[i].x = -bubbles'[i].r
           /\ steps'[i].wrap = "left" => steps'[i].x = canvas.width * PX + bubbles'[i].r
           /\ ~steps'[i].pushed => bubbles'[i].x = steps'[i].x]_vars

\* C6 witness: a particle wrapped from the left edge and was then displaced
\* by the pointer
WrapExactWitness ==
    /\ Ticked
    /\ \E i \in 1 .. Len(bubbles) :
         /\ steps[i].wrap = "left"
         /\ steps[i].pushed
         /\ bubbles[i].x # steps[i].x

\* C7: on every tick each particle keeps its baseRadius, hue, vy, vx and wobble
\* seed, and a particle that left the top is put by the recycle step at
\* y = height + 2r with an x inside [0, width]
RecyclePreservesIdentity ==
    [][FrameStep =>
         /\ Len(bubbles') = Len(bubbles)
         /\ \A i \in 1 .. Len(bubbles) :
              /\ bubbles'[i].baseR = bubbles[i].baseR
              /\ bubbles'[i].hue = bubbles[i].hue
              /\ bubbles'[i].vy = bubbles[i].vy
              /\ bubbles'[i].vx = bubbles[i].vx
              /\ bubbles'[i].wobbleSeed = bubbles[i].wobbleSeed
              /\ steps'[i].recycled =>
                   /\ steps'[i].y = canvas.height * PX + 2 * bubbles'[i].r
                   /\ steps'[i].x >= 0
                   /\ steps'[i].x <= canvas.width * PX]_vars

\* C7 witness: a particle was recycled to a new x
RecycleWitness ==
    /\ Ticked
    /\ \E i \in 1 .. Len(bubbles) : steps[i].recycled /\ steps[i].x > 0

\* this.mouse as the last pointer event alone would set it
PointerOf(e) ==
    [ x |-> (e.clientX - RectLeft) * dpr * PX,
      y |-> (e.clientY - RectTop) * dpr * PX,
      active |-> e.kind = "move" ]

\* C8: each tick's interaction is the one the most recent pointer event alone
\* determines; after a pointerleave, or before any pointer event, no particle
\* is displaced
PointerLastValueWins ==
    [][FrameStep =>
         \A i \in 1 .. Len(bubbles) :
           LET q == Interact(steps'[i], PointerOf(lastPointer), dpr, options)
           IN  /\ bubbles'[i].x = q.x
               /\ bubbles'[i].y = q.y
               /\ steps'[i].pushed = InReach(steps'[i], PointerOf(lastPointer), dpr)
               /\ lastPointer.kind # "move" =>
                    /\ ~steps'[i].pushed
                    /\ bubbles'[i].x = steps'[i].x
                    /\ bubbles'[i].y = steps'[i].y]_vars

\* C8 witness: two pointer events came between two ticks and the later tick
\* displaced a particle
PointerLastValueWitness ==
    /\ Ticked
    /\ delivered >= 2
    /\ \E i \in 1 .. Len(bubbles) : steps[i].pushed /\ bubbles[i].x # steps[i].x

\* C9: a change to visible sets the origin to the clock reading, a change to
\* hidden leaves it, and every tick measures its elapsed time from the last
\* change to visible (from construction before the first)
ResumeRebaselines ==
    [][/\ FrameStep => elapsed' = now - resumedAt
       /\ (visibilityState = "hidden" /\ visibilityState' = "visible") => t0' = now
       /\ (visibilityState = "visible" /\ visibilityState' = "hidden") => t0' = t0]_vars

\* C9 witness: a tick after a resume measured less than the time since construction
ResumeWitness ==
    /\ Ticked
    /\ resumedAt > 0
    /\ frameAt >= resumedAt
    /\ elapsed = 0
    /\ elapsed < frameAt

\* C10: a step that changes the canvas size changes nothing else of the field,
\* and only a frame changes the particles
ResizeOnlyResizes ==
    [][/\ canvas' # canvas =>
            /\ bubbles' = bubbles
            /\ mouse' = mouse
            /\ t0' = t0
            /\ \E rect \in RectSizes : canvas' = [width |-> rect[1] * dpr, height |-> rect[2] * dpr]
       /\ bubbles' # bubbles => FrameStep]_vars

\* C10 witness: after a resize and before the next tick a particle lies wholly
\* outside the new bounds, where a tick's wrap step will find it
ResizeWitness ==
    \E i \in 1 .. Len(bubbles) :
      /\ bubbles[i].x - bubbles[i].r > canvas.width * PX
      /\ WrapSide(bubbles[i], canvas) = "right"

\* C11 (as stated): while the exercise is active at most one animate callback
\* and at most one updateTimer callback is pending, so a stop followed by a
\* start before the pending callbacks fire leaves one chain of each kind
SingleChains ==
    isActive => (animates <= 1 /\ Len(timeouts) <= 1)

\* C11: a callback that runs while the exercise is stopped schedules no successor
StoppedChainsEnd ==
    [][/\ (handler' = "animate" /\ ~isActive) => animates' = 0
       /\ (handler' = "updateTimer" /\ ~isActive) => Len(timeouts') = Len(timeouts) - 1]_vars

\* C11 witness: the exercise restarted with the callbacks of the stopped run
\* still pending, two chains of each kind live
TwoChainsWitness ==
    /\ isActive
    /\ animates = 2
    /\ Len(timeouts) = 2

\* C12: currentPhase stays in 0..3; start sets it to 0; while the exercise is
\* active only an animate callback changes it, by one step of the cycle
\* 0->1->2->3->0, when the time since the phase began has reached the phase's
\* duration, and the phase then begins at that moment; a language switch
\* replaces the labels and leaves the phase and its start time alone
PhaseCycle ==
    [][/\ currentPhase \in 0 .. 3
       /\ currentPhase' \in 0 .. 3
       /\ handler' = "start" => (isActive' /\ currentPhase' = 0)
       /\ (isActive /\ currentPhase' # currentPhase) =>
            /\ handler' = "animate"
            /\ currentPhase' = (currentPhase + 1) % 4
            /\ date - phaseStartTime >= PhaseDurations[currentPhase + 1]
            /\ phaseStartTime' = date
       /\ currentLang' # currentLang =>
            /\ phases' = BreathingTexts[currentLang']
            /\ phases' # phases
            /\ currentPhase' = currentPhase
            /\ phaseStartTime' = phaseStartTime]_vars

\* C12 witness: the language switched while the exercise is active and has
\* gone round the whole cycle back to phase 0
PhaseCycleWitness ==
    /\ isActive
    /\ handler = "switchLanguage"
    /\ currentPhase = 0
    /\ phaseStartTime >= startTime + 10000

====
